---- MODULE Spec2Model ----
(***************************************************************************)
(* A model of src/main.py: the TradingView -> Coinbase webhook handler     *)
(* (webhook, place_market_order, fetch_* helpers, send_telegram).          *)
(*                                                                         *)
(* Python strings are tuples of one-character strings, so that strip,      *)
(* upper, lower, split, startswith, float() and str() are computed         *)
(* character by character.  Decimal quantities are integers counting       *)
(* tenths (one fractional digit); a Python int n is PInt(n), a Python      *)
(* float with d tenths is PFloat(d).  A step of a function whose result    *)
(* is read several times is an operator taking that result as a           *)
(* parameter.                                                              *)
(***************************************************************************)
EXTENDS Integers, Sequences, FiniteSets, TLC

\* ------------------------------------------------------------------------
\* Bounds of the model
\* ------------------------------------------------------------------------
\* worker threads of the HTTP server that may hold a request
NSlots == 2
\* milliseconds the clock may advance
MaxClock == 1
\* entries in the accounts list of a fetch_accounts reply
MaxAccounts == 2

\* ------------------------------------------------------------------------
\* Python values
\* ------------------------------------------------------------------------
None_ == [t |-> "none"]
PStr(s) == [t |-> "str", s |-> s]
PInt(n) == [t |-> "int", n |-> n]
PFloat(d) == [t |-> "float", d |-> d]
PList(items) == [t |-> "list", items |-> items]
PDict(f) == [t |-> "dict", f |-> f]
\* the marker of a raised exception
Raised == [t |-> "raise"]

\* bool(v)
truthy(v) ==
    CASE v.t = "none" -> FALSE
      [] v.t = "str" -> Len(v.s) > 0
      [] v.t = "int" -> v.n # 0
      [] v.t = "float" -> v.d # 0
      [] v.t = "list" -> Len(v.items) > 0
      [] v.t = "dict" -> DOMAIN v.f # {}
      [] OTHER -> TRUE

\* a or b
py_or(a, b) == IF truthy(a) THEN a ELSE b

\* d.get(k): None when the key is absent
dict_get(d, k) == IF k \in DOMAIN d.f THEN d.f[k] ELSE None_

\* d.get(k, default)
dict_get_default(d, k, default) == IF k \in DOMAIN d.f THEN d.f[k] ELSE default

\* ------------------------------------------------------------------------
\* Python string methods, character by character
\* ------------------------------------------------------------------------
Lowers == <<"a","b","c","d","e","f","g","h","i","j","k","l","m",
            "n","o","p","q","r","s","t","u","v","w","x","y","z">>
Uppers == <<"A","B","C","D","E","F","G","H","I","J","K","L","M",
            "N","O","P","Q","R","S","T","U","V","W","X","Y","Z">>
Digits == <<"0","1","2","3","4","5","6","7","8","9">>
Whitespace == {" ", "\n", "\t", "\r"}

IndexIn(seq, c) == IF \E i \in 1..Len(seq) : seq[i] = c
                   THEN CHOOSE i \in 1..Len(seq) : seq[i] = c
                   ELSE 0

upper_char(c) == IF IndexIn(Lowers, c) > 0 THEN Uppers[IndexIn(Lowers, c)] ELSE c
lower_char(c) == IF IndexIn(Uppers, c) > 0 THEN Lowers[IndexIn(Uppers, c)] ELSE c

\* str.upper(), str.lower()
py_upper(s) == [i \in 1..Len(s) |-> upper_char(s[i])]
py_lower(s) == [i \in 1..Len(s) |-> lower_char(s[i])]

\* the least and the greatest member of a non-empty set of indexes
Least(S) == CHOOSE i \in S : \A j \in S : i <= j
Greatest(S) == CHOOSE i \in S : \A j \in S : i >= j

\* s between the first and the last of the indexes to keep
strip_to(s, keep) == IF keep = {} THEN <<>> ELSE SubSeq(s, Least(keep), Greatest(keep))

\* str.strip()
py_strip(s) == strip_to(s, {i \in 1..Len(s) : s[i] \notin Whitespace})

\* str.startswith(p)
py_startswith(s, p) == Len(s) >= Len(p) /\ SubSeq(s, 1, Len(p)) = p

\* where the word starting s ends: the first whitespace, or past the end
word_end(s, stops) == IF stops = {} THEN Len(s) + 1 ELSE Least(stops)

\* str.split(): the maximal runs of non-whitespace characters
RECURSIVE py_split(_)
split_at(s, end) == <<SubSeq(s, 1, end - 1)>> \o py_split(SubSeq(s, end, Len(s)))
py_split(s) ==
    IF s = <<>> THEN <<>>
    ELSE IF s[1] \in Whitespace THEN py_split(Tail(s))
    ELSE split_at(s, word_end(s, {i \in 1..Len(s) : s[i] \in Whitespace}))

\* the decimal digits of a natural number
RECURSIVE nat_digits(_)
nat_digits(n) == IF n < 10 THEN <<Digits[n + 1]>>
                 ELSE nat_digits(n \div 10) \o <<Digits[(n % 10) + 1]>>

\* |n|
Abs(n) == IF n < 0 THEN 0 - n ELSE n

\* the sign str() and format() write
Sign(n) == IF n < 0 THEN <<"-">> ELSE <<>>

\* str(n) of a Python int
str_int(n) == Sign(n) \o nat_digits(Abs(n))

\* str(x) of a Python float holding d tenths: repr always shows a fraction
str_float(d) ==
    Sign(d) \o nat_digits(Abs(d) \div 10) \o <<".">> \o <<Digits[(Abs(d) % 10) + 1]>>

\* str(v)
py_str(v) ==
    CASE v.t = "str" -> v.s
      [] v.t = "int" -> str_int(v.n)
      [] v.t = "float" -> str_float(v.d)
      [] v.t = "none" -> <<"N","o","n","e">>
      [] OTHER -> <<"[","]">>

\* the value of a run of digits
RECURSIVE digits_value(_)
digits_value(s) == IF s = <<>> THEN 0
                   ELSE 10 * digits_value(SubSeq(s, 1, Len(s) - 1))
                        + (IndexIn(Digits, s[Len(s)]) - 1)

all_digits(s) == \A i \in 1..Len(s) : IndexIn(Digits, s[i]) > 0

\* float(s) of a string, in tenths: optional surrounding whitespace, an
\* optional sign, digits with at most one point; Raised on anything else
\* (ValueError).  Strings of the model carry at most one fractional digit.
float_of_digits(ip, fp, neg) ==
    IF all_digits(ip) /\ all_digits(fp) /\ Len(ip) + Len(fp) > 0 /\ Len(fp) <= 1
    THEN PFloat((IF neg THEN 0 - 1 ELSE 1) * (10 * digits_value(ip) + digits_value(fp)))
    ELSE Raised

float_of_parts(u, dots, neg) ==
    IF Cardinality(dots) > 1 THEN Raised
    ELSE IF dots = {} THEN float_of_digits(u, <<>>, neg)
    ELSE float_of_digits(SubSeq(u, 1, Least(dots) - 1),
                         SubSeq(u, Least(dots) + 1, Len(u)), neg)

float_of_unsigned(u, neg) == float_of_parts(u, {i \in 1..Len(u) : u[i] = "."}, neg)

float_of_signed(v) ==
    IF Len(v) > 0 /\ v[1] \in {"-", "+"}
    THEN float_of_unsigned(Tail(v), v[1] = "-")
    ELSE float_of_unsigned(v, FALSE)

float_of_str(s) == float_of_signed(py_strip(s))

\* float(v): TypeError for None, lists and dicts
py_float(v) ==
    CASE v.t = "int" -> PFloat(10 * v.n)
      [] v.t = "float" -> v
      [] v.t = "str" -> float_of_str(v.s)
      [] OTHER -> Raised

\* the tenths a Python number holds
tenths(v) == IF v.t = "int" THEN 10 * v.n ELSE v.d

\* the "," of the format specifier
RECURSIVE group_thousands(_)
group_thousands(ds) == IF Len(ds) <= 3 THEN ds
                       ELSE group_thousands(SubSeq(ds, 1, Len(ds) - 3))
                            \o <<",">> \o SubSeq(ds, Len(ds) - 2, Len(ds))

\* f"${x:,.2f}"; c counts hundredths, so the two digits written are exact
fmt_usd(c) ==
    <<"$">> \o Sign(c) \o group_thousands(nat_digits(Abs(c) \div 100))
    \o <<".">> \o <<Digits[((Abs(c) \div 10) % 10) + 1], Digits[(Abs(c) % 10) + 1]>>

\* f"{x:.8f} BTC" of a float holding d tenths
fmt_btc(d) ==
    nat_digits(d \div 10) \o <<".">> \o <<Digits[(d % 10) + 1]>>
    \o <<"0","0","0","0","0","0","0">> \o <<" ","B","T","C">>

\* ------------------------------------------------------------------------
\* Module constants of main.py
\* ------------------------------------------------------------------------
PRODUCT_ID == <<"B","T","C","-","U","S","D","C">>
DEFAULT_USD_AMOUNT == 50
DEF_HOST == "api.coinbase.com"
ACCOUNTS_PATH == "/api/v3/brokerage/accounts"
ORDERS_PATH == "/api/v3/brokerage/orders"
BEST_BID_ASK_PATH == "/api/v3/brokerage/best_bid_ask"
ORDER_DETAILS_PATH_TMPL == "/api/v3/brokerage/orders/historical/{order_id}"
FILLS_PATH == "/api/v3/brokerage/orders/historical/fills"
TRANSACTION_SUMMARY_PATH == "/api/v3/brokerage/transaction_summary"

\* words the handler compares against
W_BUY == <<"B","U","Y">>
W_SELL == <<"S","E","L","L">>
W_buy == <<"b","u","y">>
W_sell == <<"s","e","l","l">>
W_BTCUSDC == <<"B","T","C","U","S","D","C">>
W_BTC == <<"B","T","C">>
W_GET == <<"G","E","T">>
W_POST == <<"P","O","S","T">>

\* ------------------------------------------------------------------------
\* State
\* ------------------------------------------------------------------------
VARIABLES
    env,     \* the module globals read from the environment at import
    clock,   \* time.time() in milliseconds, counted from an arbitrary epoch
    req,     \* per worker slot: the webhook() invocation it is running
    sched    \* the daily PnL thread, the UTC hour it lives in, its current run

vars == <<env, clock, req, sched>>

Slots == 1..NSlots

NoHttp == [status |-> 0, error |-> "", details |-> None_]

IdleReq ==
    [pc |-> "idle", body |-> None_, data |-> None_, action |-> <<>>, symbol |-> None_,
     usd_amount |-> None_, status_accounts |-> 0, data_accounts |-> None_,
     base_size |-> None_,
     status |-> 0, resp |-> None_, order_id |-> None_,
     calls |-> <<>>, tokens |-> <<>>, notes |-> <<>>, http |-> NoHttp]

\* send_telegram(text): the Notifier is invoked once more
send_telegram(q, note) == [q EXCEPT !.notes = Append(@, note)]

\* return jsonify(...), status
respond(q, status, error, details) ==
    [q EXCEPT !.pc = "done",
              !.http = [status |-> status, error |-> error, details |-> details]]

\* a slip: the handler answers without telling the Notifier
unhandled_silent(q) == respond(q, 500, "Unhandled exception", None_)

\* the handler of `except Exception as e` closing webhook()'s try block
unhandled(q) ==
    respond(send_telegram(q, [k |-> "unhandled"]), 500, "Unhandled exception", None_)

\* an exception raised outside every try block leaves webhook() uncaught
escaped(q) == [q EXCEPT !.pc = "escaped"]

\* a slip: the private key is not looked at
require_env_name_only(e) == IF e.key_name THEN <<>> ELSE <<"COINBASE_API_KEY_NAME">>

\* require_env(): the names of the missing variables
require_env(e) ==
    (IF e.key_name THEN <<>> ELSE <<"COINBASE_API_KEY_NAME">>)
    \o (IF e.private_key # "missing" THEN <<>> ELSE <<"COINBASE_PRIVATE_KEY">>)

\* ------------------------------------------------------------------------
\* webhook(): parsing and validation
\* ------------------------------------------------------------------------
BadPayload == [t |-> "bad_payload"]

SymbolTokens == {W_BTCUSDC, PRODUCT_ID}

\* the first token that names the symbol, PRODUCT_ID when none does
fallback_symbol(tokens) ==
    IF \E i \in 1..Len(tokens) : tokens[i] \in SymbolTokens
    THEN tokens[Least({i \in 1..Len(tokens) : tokens[i] \in SymbolTokens})]
    ELSE PRODUCT_ID

\* a slip: the keyword is looked for anywhere in the body
fallback_data_anywhere(upper) ==
    IF \E i \in 1..Len(upper) : py_startswith(SubSeq(upper, i, Len(upper)), W_BUY)
    THEN PDict([action |-> PStr(W_buy), symbol |-> PStr(fallback_symbol(py_split(upper)))])
    ELSE IF \E i \in 1..Len(upper) : py_startswith(SubSeq(upper, i, Len(upper)), W_SELL)
    THEN PDict([action |-> PStr(W_sell), symbol |-> PStr(fallback_symbol(py_split(upper)))])
    ELSE BadPayload

\* the instruction read from the trimmed, upper-cased text
fallback_data(upper) ==
    IF py_startswith(upper, W_BUY)
    THEN PDict([action |-> PStr(W_buy), symbol |-> PStr(fallback_symbol(py_split(upper)))])
    ELSE IF py_startswith(upper, W_SELL)
    THEN PDict([action |-> PStr(W_sell), symbol |-> PStr(fallback_symbol(py_split(upper)))])
    ELSE BadPayload

\* the plain-text fallback of the body parser
parse_fallback(raw) == fallback_data(py_upper(py_strip(raw)))

\* json.loads(raw_body), or the fallback when it raises
parse_body(body) ==
    IF body.kind = "json" THEN body.val ELSE parse_fallback(body.raw)

\* v.strip(): Raised when v has no .strip (AttributeError)
stripped(v) == IF v.t # "str" THEN Raised ELSE PStr(py_strip(v.s))

\* (data.get(key) or "").strip(): Raised when data has no .get
get_stripped(data, key) ==
    IF data.t # "dict" THEN Raised
    ELSE stripped(py_or(dict_get(data, key), PStr(<<>>)))

\* a slip: the alias is forgotten
alias_symbol_forgotten(u) == u

\* `if symbol == "BTCUSDC": symbol = "BTC-USDC"`
alias_symbol(u) == IF u = W_BTCUSDC THEN PRODUCT_ID ELSE u

\* the symbol after upper-casing and the BTCUSDC alias
normalize_symbol(s) == alias_symbol(py_upper(s))

\* the two membership checks, then the branch to take
webhook_route(q, symbol) ==
    IF q.action \notin {W_buy, W_sell}
    THEN respond(q, 400, "Invalid or missing action", None_)
    ELSE IF symbol # PRODUCT_ID
    THEN respond(q, 400, "Unsupported symbol", None_)
    ELSE [q EXCEPT !.pc = IF q.action = W_buy THEN "buy" ELSE "sell"]

\* action and symbol are read outside every try block
webhook_validate(q, a, s) ==
    IF a = Raised \/ s = Raised THEN escaped(q)
    ELSE webhook_route([q EXCEPT !.action = py_lower(a.s),
                                 !.symbol = PStr(normalize_symbol(s.s))],
                       normalize_symbol(s.s))

\* the body is parsed; require_env() comes before the fields are read
webhook_parsed(q, data, e) ==
    IF data = BadPayload
    THEN respond(send_telegram(q, [k |-> "bad_payload"]), 400,
                 "Body is not valid JSON and no BUY/SELL keyword found", None_)
    ELSE IF require_env(e) # <<>>
    THEN respond(send_telegram(q, [k |-> "env", missing |-> require_env(e)]),
                 500, "Missing environment variables", None_)
    ELSE webhook_validate([q EXCEPT !.data = data],
                          get_stripped(data, "action"), get_stripped(data, "symbol"))

\* webhook() from its entry to the first exchange call
webhook_receive(q, body, e) ==
    webhook_parsed([q EXCEPT !.body = body], parse_body(body), e)

\* ------------------------------------------------------------------------
\* Request signer and exchange client
\* ------------------------------------------------------------------------
\* what the network gives back to one requests.get / requests.post
Timeout == [net |-> "timeout"]
JsonBody(v) == [kind |-> "json", val |-> v]
RawBody == [kind |-> "raw"]
Reply(status, body) == [net |-> "ok", status |-> status, body |-> body]

\* a path, with the order id filled into the template when there is one
Path(base, id) == [base |-> base, id |-> id]

build_uri(method, path, host) == [method |-> py_upper(method), host |-> host, path |-> path]

\* create_jwt(): Raised when jwt.encode rejects the key material
create_jwt(e, now, method, path) ==
    IF e.private_key = "valid"
    THEN [iss |-> "cdp", nbf |-> now \div 1000, exp |-> (now \div 1000) + 120,
          uri |-> build_uri(method, path, DEF_HOST)]
    ELSE Raised

\* `try: resp.json()  except Exception: {"raw": resp.text}`
json_or_raw(reply) ==
    IF reply.body.kind = "json" THEN reply.body.val
    ELSE PDict([raw |-> PStr(<<"r","a","w">>)])

\* a slip: a call that timed out is sent a second time
send_signed_again(token, call, reply) ==
    IF token = Raised
    THEN [exc |-> TRUE, signed |-> <<>>, sent |-> <<>>, status |-> 0, json |-> None_]
    ELSE IF reply.net = "timeout"
    THEN [exc |-> TRUE, signed |-> <<token>>, sent |-> <<call, call>>,
          status |-> 0, json |-> None_]
    ELSE [exc |-> FALSE, signed |-> <<token>>, sent |-> <<call>>,
          status |-> reply.status, json |-> json_or_raw(reply)]

\* requests.get/post with the token, then (status_code, body).  exc tells
\* that an exception left the helper; signed and sent are what it did before.
send_signed(token, call, reply) ==
    IF token = Raised
    THEN [exc |-> TRUE, signed |-> <<>>, sent |-> <<>>, status |-> 0, json |-> None_]
    ELSE IF reply.net = "timeout"
    THEN [exc |-> TRUE, signed |-> <<token>>, sent |-> <<call>>,
          status |-> 0, json |-> None_]
    ELSE [exc |-> FALSE, signed |-> <<token>>, sent |-> <<call>>,
          status |-> reply.status, json |-> json_or_raw(reply)]

\* one signed call: auth_headers(), then the request
exchange_call(e, now, method, path, payload, reply) ==
    send_signed(create_jwt(e, now, method, path),
                [method |-> method, path |-> path, payload |-> payload], reply)

fetch_accounts(e, now, reply) ==
    exchange_call(e, now, W_GET, Path(ACCOUNTS_PATH, <<>>), None_, reply)

fetch_order_details(e, now, order_id, reply) ==
    exchange_call(e, now, W_GET, Path(ORDER_DETAILS_PATH_TMPL, order_id), None_, reply)

fetch_fills(e, now, reply) ==
    exchange_call(e, now, W_GET, Path(FILLS_PATH, <<>>), None_, reply)

\* a slip: the buy is always sized by the default amount
order_sizing_default(side, usd_amount, base_size) ==
    IF py_lower(side) = W_buy
    THEN [quote_size |-> py_str(PInt(DEFAULT_USD_AMOUNT))]
    ELSE [base_size |-> py_str(base_size)]

\* the sizing field of the order: quote_size for a buy, base_size otherwise
order_sizing(side, usd_amount, base_size) ==
    IF py_lower(side) = W_buy
    THEN [quote_size |-> py_str(py_or(usd_amount, PInt(DEFAULT_USD_AMOUNT)))]
    ELSE [base_size |-> py_str(base_size)]

\* str(int(time.time() * 1000))
client_order_id(now) == str_int(now)

\* the order dict
build_order(now, side, usd_amount, base_size) ==
    [client_order_id |-> client_order_id(now),
     product_id |-> PRODUCT_ID,
     side |-> py_upper(side),
     order_configuration |->
         [market_market_ioc |-> order_sizing(side, usd_amount, base_size)]]

\* `raise ValueError("SELL requires base_size")`, after the token was signed
sell_without_size(token) ==
    [exc |-> TRUE, signed |-> IF token = Raised THEN <<>> ELSE <<token>>,
     sent |-> <<>>, status |-> 0, json |-> None_]

\* place_market_order()
place_market_order(e, now, side, usd_amount, base_size, reply) ==
    IF py_lower(side) # W_buy /\ ~truthy(base_size)
    THEN sell_without_size(create_jwt(e, now, W_POST, Path(ORDERS_PATH, <<>>)))
    ELSE exchange_call(e, now, W_POST, Path(ORDERS_PATH, <<>>),
                       build_order(now, side, usd_amount, base_size), reply)

\* float(side[0]["price"]) if side else None; Raised on any exception
first_price(side) ==
    IF side.t # "list" THEN Raised
    ELSE IF side.items = <<>> THEN None_
    ELSE IF side.items[1].t # "dict" \/ "price" \notin DOMAIN side.items[1].f THEN Raised
    ELSE py_float(side.items[1].f.price)

\* the mid price when both sides have one, else the side there is; every
\* exception of the parsing block turns into None.  The mid price of the
\* model's sample prices is exact in tenths.
book_price(bid_price, ask_price) ==
    IF bid_price = Raised \/ ask_price = Raised THEN None_
    ELSE IF truthy(bid_price) /\ truthy(ask_price)
    THEN PFloat((bid_price.d + ask_price.d) \div 2)
    ELSE py_or(bid_price, ask_price)

\* the price of the first book of the product
RECURSIVE scan_books(_, _)
scan_books(books, product_id) ==
    IF books = <<>> THEN None_
    ELSE IF Head(books).t # "dict" THEN None_
    ELSE IF dict_get(Head(books), "product_id") = PStr(product_id)
    THEN book_price(first_price(dict_get_default(Head(books), "bids", PList(<<>>))),
                    first_price(dict_get_default(Head(books), "asks", PList(<<>>))))
    ELSE scan_books(Tail(books), product_id)

books_price(books, product_id) ==
    IF books.t # "list" THEN None_ ELSE scan_books(books.items, product_id)

\* the try block of fetch_best_bid_ask()
best_bid_ask_price(reply, product_id) ==
    IF reply.body.kind # "json" \/ reply.body.val.t # "dict" THEN None_
    ELSE books_price(dict_get_default(reply.body.val, "pricebooks", PList(<<>>)),
                     product_id)

priced(r, reply, product_id) ==
    [exc |-> r.exc, signed |-> r.signed, sent |-> r.sent,
     price |-> IF r.exc THEN None_ ELSE best_bid_ask_price(reply, product_id)]

fetch_best_bid_ask(e, now, product_id, reply) ==
    priced(exchange_call(e, now, W_GET, Path(BEST_BID_ASK_PATH, <<>>),
                         [product_ids |-> product_id], reply),
           reply, product_id)

\* ------------------------------------------------------------------------
\* webhook(): the Buy branch
\* ------------------------------------------------------------------------
\* what q did on the network is appended to its log
logged(q, r) == [q EXCEPT !.tokens = @ \o r.signed, !.calls = @ \o r.sent]

\* DEFAULT_USD_AMOUNT when float() raised
float_or_default(f) == IF f = Raised THEN PInt(DEFAULT_USD_AMOUNT) ELSE f

\* `float(usd_amount) if usd_amount is not None else DEFAULT_USD_AMOUNT`
amount_or_default(raw) ==
    IF raw.t = "none" THEN PInt(DEFAULT_USD_AMOUNT) ELSE float_or_default(py_float(raw))

buy_amount(data) == amount_or_default(dict_get(data, "usd_amount"))

\* success_response.get("order_id"); Raised when it has no .get
order_id_of(sr) == IF sr.t # "dict" THEN Raised ELSE dict_get(sr, "order_id")

\* resp.get("success_response", {}).get("order_id") if isinstance(resp, dict)
\* else None
response_order_id(resp) ==
    IF resp.t # "dict" THEN None_
    ELSE order_id_of(dict_get_default(resp, "success_response", PDict(<<>>)))

\* the exchange's answer to the order is taken as success
order_succeeded(status, resp) == status < 300

order_placed(q) == respond(q, 200, "order placed", q.resp)

\* `if order_id:` inside the inner try; an exception there is only logged
buy_executed(q, order_id) ==
    IF order_id # Raised /\ truthy(order_id)
    THEN [q EXCEPT !.pc = "buy_details", !.order_id = order_id]
    ELSE order_placed(q)

\* `if status < 300: ... else: ...` of the Buy branch
buy_answered(q) ==
    IF order_succeeded(q.status, q.resp)
    THEN buy_executed(send_telegram(q, [k |-> "buy_executed",
                                        amount |-> fmt_usd(10 * tenths(q.usd_amount))]),
                      response_order_id(q.resp))
    ELSE respond(send_telegram(q, [k |-> "buy_failed"]), 400,
                 "Coinbase order failed", q.resp)

buy_ordered(q, r) ==
    IF r.exc THEN unhandled(logged(q, r))
    ELSE buy_answered([logged(q, r) EXCEPT !.status = r.status, !.resp = r.json])

\* from `if action == "buy"` through place_market_order to the next call
webhook_buy(q, e, now, reply) ==
    buy_ordered([q EXCEPT !.usd_amount = buy_amount(q.data)],
                place_market_order(e, now, W_buy, buy_amount(q.data), None_, reply))

\* fetch_order_details(order_id) inside the inner try: an exception only
\* skips the fills
details_fetched(q, r) ==
    IF r.exc THEN order_placed(logged(q, r))
    ELSE [logged(q, r) EXCEPT !.pc = "buy_fills"]

webhook_buy_details(q, e, now, reply) ==
    details_fetched(q, fetch_order_details(e, now, py_str(q.order_id), reply))

\* fetch_fills(product_id=PRODUCT_ID, limit=10) inside the inner try
webhook_buy_fills(q, e, now, reply) ==
    order_placed(logged(q, fetch_fills(e, now, reply)))

\* ------------------------------------------------------------------------
\* webhook(): the Sell branch
\* ------------------------------------------------------------------------
\* float(val) raises inside `if val and float(val) > 0`
sellable_raises(val) == truthy(val) /\ py_float(val) = Raised

\* a slip: f >= 0
not_negative(f) == f # Raised /\ f.d >= 0

\* f > 0
positive(f) == f # Raised /\ f.d > 0

\* `if val and float(val) > 0`
is_sellable(val) == truthy(val) /\ positive(py_float(val))

\* the loop deriving base_size: str(value) of the first BTC account whose
\* available balance is positive, None when there is none, Raised when an
\* entry cannot be read
RECURSIVE derive_base_size(_)
value_or_next(val, rest) ==
    IF sellable_raises(val) THEN Raised
    ELSE IF is_sellable(val) THEN PStr(py_str(val))
    ELSE derive_base_size(rest)

balance_or_next(ab, rest) ==
    IF ab.t # "dict" THEN Raised ELSE value_or_next(dict_get(ab, "value"), rest)

derive_base_size(accts) ==
    IF accts = <<>> THEN None_
    ELSE IF Head(accts).t # "dict" THEN Raised
    ELSE IF dict_get(Head(accts), "currency") # PStr(W_BTC)
    THEN derive_base_size(Tail(accts))
    ELSE balance_or_next(py_or(dict_get(Head(accts), "available_balance"), PDict(<<>>)),
                         Tail(accts))

\* `for acct in ...`: Raised when what the reply holds cannot be iterated
list_or_raised(l) == IF l.t # "list" THEN Raised ELSE l

\* data_accounts.get("accounts", []): Raised when the reply is no dict
accounts_of(data_accounts) ==
    IF data_accounts.t # "dict" THEN Raised
    ELSE list_or_raised(dict_get_default(data_accounts, "accounts", PList(<<>>)))

\* `if not base_size:`
accounts_sized(q, base_size) ==
    IF base_size = Raised THEN unhandled(q)
    ELSE IF ~truthy(base_size)
    THEN respond(send_telegram(q, [k |-> "no_btc"]), 400,
                 "No BTC available to sell", None_)
    ELSE [q EXCEPT !.pc = "sell_order", !.base_size = base_size]

accounts_listed(q, accts) ==
    IF accts = Raised THEN unhandled(q)
    ELSE accounts_sized(q, derive_base_size(accts.items))

\* `if status_accounts >= 300:`
accounts_answered(q, exc) ==
    IF exc THEN unhandled(q)
    ELSE IF q.status_accounts >= 300
    THEN respond(send_telegram(q, [k |-> "accounts_failed"]), 400,
                 "Failed to fetch accounts", q.data_accounts)
    ELSE accounts_listed(q, accounts_of(q.data_accounts))

accounts_fetched(q, r) ==
    accounts_answered([logged(q, r) EXCEPT !.status_accounts = r.status,
                                          !.data_accounts = r.json],
                      r.exc)

\* from `else:  # SELL` through fetch_accounts to place_market_order
webhook_accounts(q, e, now, reply) == accounts_fetched(q, fetch_accounts(e, now, reply))

\* `if status < 300: ... else: ...` of the Sell branch
sell_answered(q) ==
    IF order_succeeded(q.status, q.resp)
    THEN [q EXCEPT !.pc = "sell_price"]
    ELSE respond(send_telegram(q, [k |-> "sell_failed"]), 400,
                 "Coinbase order failed", q.resp)

sell_ordered(q, r) ==
    IF r.exc THEN unhandled(logged(q, r))
    ELSE sell_answered([logged(q, r) EXCEPT !.status = r.status, !.resp = r.json])

\* a slip: a base_size sent by the caller is sold instead of the balance
webhook_sell_caller_size(q, e, now, reply) ==
    sell_ordered(q, place_market_order(e, now, W_sell, None_,
                                       py_or(dict_get(q.data, "base_size"), q.base_size),
                                       reply))

\* place_market_order("sell", base_size=base_size) and its classification
webhook_sell(q, e, now, reply) ==
    sell_ordered(q, place_market_order(e, now, W_sell, None_, q.base_size, reply))

\* the estimate and the success message; size counts tenths, price tenths,
\* the estimate hundredths
sell_executed(q, size, price) ==
    order_placed(send_telegram(q, [k |-> "sell_executed",
                                   qty |-> fmt_btc(size.d),
                                   est |-> fmt_usd(size.d * price.d)]))

\* `price = fetch_best_bid_ask(PRODUCT_ID) or 0.0`
price_fetched(q, r) ==
    IF r.exc THEN unhandled(logged(q, r))
    ELSE sell_executed(logged(q, r), py_float(q.base_size),
                       py_float(py_or(r.price, PFloat(0))))

webhook_price(q, e, now, reply) ==
    price_fetched(q, fetch_best_bid_ask(e, now, PRODUCT_ID, reply))

\* ------------------------------------------------------------------------
\* Daily PnL: compute_daily_pnl_and_notify() and the scheduler thread
\* ------------------------------------------------------------------------
\* hours in a day: timedelta(days=1), and the 24 * 3600 of the cutoff
HoursPerDay == 24

\* the sums of a run before any fill is counted
NoTally == [buys |-> 0, sells |-> 0, fees |-> 0, count |-> 0]

\* the scheduler thread and the run it makes, before the thread is started
SchedIdle ==
    [enabled |-> FALSE, hour_utc |-> 13, pc |-> "off", hour |-> 0,
     until |-> 0, planned_at |-> 0, planned |-> 0, busy |-> 0, since |-> 0 - 1, on_trigger |-> 0,
     status |-> 0, fills |-> None_, tally |-> NoTally,
     calls |-> <<>>, tokens |-> <<>>, notes |-> <<>>]

\* start_daily_pnl_thread()
start_daily_pnl_thread(s) == IF s.enabled THEN [s EXCEPT !.pc = "loop"] ELSE s

\* an hour passes: the sleeper is an hour closer to next_run, a thread at
\* work an hour later, the last trigger an hour older
hour_passed(s) ==
    [s EXCEPT !.hour = (@ + 1) % HoursPerDay,
              !.until = IF s.pc = "sleep" THEN @ - 1 ELSE @,
              !.busy = IF s.pc \in {"sleep", "off"} THEN @ ELSE @ + 1,
              !.since = IF @ < 0 \/ @ >= HoursPerDay THEN @ ELSE @ + 1]

\* a slip: the trigger never rolls to tomorrow
hours_to_next_run_today(hour, hour_utc) == hour_utc - hour

\* next_run - now in hours: today's hour_utc o'clock, tomorrow's when
\* `next_run <= now`
hours_to_next_run(hour, hour_utc) ==
    IF hour_utc <= hour THEN hour_utc + HoursPerDay - hour ELSE hour_utc - hour

\* now.replace(hour=DAILY_PNL_HOUR_UTC, ...) raises ValueError
replace_raises(hour_utc) == hour_utc \notin 0..(HoursPerDay - 1)

\* the top of `while True`: the run's results are gone, next_run is computed
\* and the thread goes to sleep, or to the sleep of the except clause
scheduled(s) ==
    IF replace_raises(s.hour_utc)
    THEN [s EXCEPT !.pc = "backoff", !.busy = 0, !.notes = <<>>, !.calls = <<>>,
                   !.tokens = <<>>, !.status = 0, !.fills = None_, !.tally = NoTally]
    ELSE [s EXCEPT !.pc = "sleep", !.busy = 0, !.notes = <<>>, !.calls = <<>>,
                   !.tokens = <<>>, !.status = 0, !.fills = None_, !.tally = NoTally,
                   !.planned_at = s.hour,
                   !.planned = hours_to_next_run(s.hour, s.hour_utc),
                   !.until = hours_to_next_run(s.hour, s.hour_utc)]

\* time.sleep(max(5, sleep_seconds)) has returned: compute_daily_pnl_and_notify()
\* is entered.  since and on_trigger record which trigger instant the run is for.
woken(s) ==
    [s EXCEPT !.pc = "fills", !.busy = 0, !.until = 0,
              !.since = 0 - s.until,
              !.on_trigger = IF s.since = 0 - s.until THEN s.on_trigger + 1 ELSE 1]

\* a slip: the failure ends the thread
pnl_failed_exit(s) == [s EXCEPT !.pc = "off", !.notes = Append(@, [k |-> "pnl_failed"])]

\* `except Exception as e:` of compute_daily_pnl_and_notify()
pnl_failed(s) == [s EXCEPT !.pc = "loop", !.notes = Append(@, [k |-> "pnl_failed"])]

\* ts_ok: a timestamp that is no string, or that datetime.fromisoformat does
\* not read, keeps the fill.  A timestamp that parses carries its age, the
\* hours between it and now.
ts_ok(t) == (t.t = "str" /\ "age" \in DOMAIN t) => t.age <= HoursPerDay

\* (a or b).upper(); Raised when it has no .upper
side_of(v) == IF v.t # "str" THEN Raised ELSE PStr(py_upper(v.s))

\* float(v or 0.0)
float_or_zero(v) == py_float(py_or(v, PFloat(0)))

\* a slip: the fee is counted with the buys
counted_fee_as_buy(acc, side, usd, fee) ==
    [buys |-> acc.buys + usd + fee, sells |-> acc.sells, fees |-> acc.fees,
     count |-> acc.count + 1]

\* the body of `if ts_ok and size > 0:`; amounts in hundredths
counted(acc, side, usd, fee) ==
    [buys |-> acc.buys + (IF side = W_BUY THEN usd ELSE 0),
     sells |-> acc.sells + (IF side = W_SELL THEN usd ELSE 0),
     fees |-> acc.fees + fee,
     count |-> acc.count + 1]

\* the loop over the fills; price and size count tenths, so their product
\* counts hundredths.  Raised when a fill cannot be read.
RECURSIVE tally(_, _)
tally_fields(ok, side, price, size, fee, rest, acc) ==
    IF side = Raised \/ price = Raised \/ size = Raised \/ fee = Raised THEN Raised
    ELSE IF ok /\ size.d > 0
    THEN tally(rest, counted(acc, side.s, IF price.d > 0 THEN price.d * size.d ELSE 0,
                             10 * fee.d))
    ELSE tally(rest, acc)

tally_item(it, rest, acc) ==
    IF it.t # "dict" THEN Raised
    ELSE tally_fields(
             ts_ok(py_or(dict_get(it, "trade_time"),
                         py_or(dict_get(it, "time"), dict_get(it, "created_time")))),
             side_of(py_or(dict_get(it, "side"),
                           py_or(dict_get(it, "order_side"), PStr(<<>>)))),
             float_or_zero(dict_get(it, "price")),
             float_or_zero(py_or(dict_get(it, "size"), dict_get(it, "base_size"))),
             float_or_zero(dict_get(it, "fee")),
             rest, acc)

tally(items, acc) ==
    IF items = <<>> THEN acc ELSE tally_item(Head(items), Tail(items), acc)

\* `for it in items or []`: iterating anything truthy that is no list ends in
\* an exception
tally_items(items) ==
    IF ~truthy(items) THEN NoTally
    ELSE IF items.t # "list" THEN Raised
    ELSE tally(items.items, NoTally)

\* `if isinstance(fills, dict): items = fills.get("fills", fills.get("orders", []))`
tally_fills(fills) ==
    IF fills.t # "dict" THEN NoTally
    ELSE tally_items(dict_get_default(fills, "fills",
                                      dict_get_default(fills, "orders", PList(<<>>))))

\* the sums are kept for the message
tallied(s, t) == IF t = Raised THEN pnl_failed(s) ELSE [s EXCEPT !.pc = "summary", !.tally = t]

\* the status of the fetch is not read
fills_fetched(s, r) ==
    IF r.exc THEN pnl_failed([s EXCEPT !.tokens = @ \o r.signed, !.calls = @ \o r.sent])
    ELSE tallied([s EXCEPT !.tokens = @ \o r.signed, !.calls = @ \o r.sent,
                           !.status = r.status, !.fills = r.json],
                 tally_fills(r.json))

\* compute_daily_pnl_and_notify() from require_env() to the end of the loop
pnl_fills(s, e, now, reply) ==
    IF require_env(e) # <<>> THEN pnl_failed(s)
    ELSE fills_fetched(s, fetch_fills(e, now, reply))

fetch_transaction_summary(e, now, reply) ==
    exchange_call(e, now, W_GET, Path(TRANSACTION_SUMMARY_PATH, <<>>), None_, reply)

\* (ts_json.get("fee_tier") or {}).get("pricing_tier") and
\* ts_json.get("total_fees"); Raised when fee_tier has no .get
tier_and_total(ft, ts_json) ==
    IF ft.t # "dict" THEN Raised
    ELSE [tier |-> dict_get(ft, "pricing_tier"), total |-> dict_get(ts_json, "total_fees")]

\* `if ts_status < 300 and isinstance(ts_json, dict):`
summary_lines(status, ts_json) ==
    IF status < 300 /\ ts_json.t = "dict"
    THEN tier_and_total(py_or(dict_get(ts_json, "fee_tier"), PDict(<<>>)), ts_json)
    ELSE [tier |-> None_, total |-> None_]

\* the message of the report and send_telegram(msg)
pnl_reported(s, lines) ==
    IF lines = Raised THEN pnl_failed(s)
    ELSE [s EXCEPT !.pc = "loop",
                   !.notes = Append(@, [k |-> "daily_pnl",
                                        buys |-> fmt_usd(s.tally.buys),
                                        sells |-> fmt_usd(s.tally.sells),
                                        fees |-> fmt_usd(s.tally.fees),
                                        net |-> fmt_usd(s.tally.sells - s.tally.buys
                                                        - s.tally.fees),
                                        count |-> str_int(s.tally.count),
                                        tier |-> lines.tier,
                                        total |-> lines.total])]

summary_fetched(s, r) ==
    IF r.exc THEN pnl_failed([s EXCEPT !.tokens = @ \o r.signed, !.calls = @ \o r.sent])
    ELSE pnl_reported([s EXCEPT !.tokens = @ \o r.signed, !.calls = @ \o r.sent],
                      summary_lines(r.status, r.json))

\* compute_daily_pnl_and_notify() from fetch_transaction_summary() on
pnl_summary(s, e, now, reply) ==
    summary_fetched(s, fetch_transaction_summary(e, now, reply))

\* ------------------------------------------------------------------------
\* Inputs: environments, webhook bodies, exchange replies
\* ------------------------------------------------------------------------
Envs == [key_name : BOOLEAN, private_key : {"missing", "malformed", "valid"}]

S_buy_upper == <<"B","U","Y">>
S_sell_padded == <<" ","S","e","l","l"," ">>
S_alert == <<"a","l","e","r","t">>
S_hold == <<"h","o","l","d">>
S_btcusdc_lower == <<"b","t","c","u","s","d","c">>
S_ethusd == <<"E","T","H","-","U","S","D">>
S_75 == <<"7","5">>
S_abc == <<"a","b","c">>
S_9 == <<"9">>

\* a JSON object holding only the given keys
Obj(action, symbol, extra) ==
    PDict([k \in {x \in {"action"} : action.t # "absent"}
                 \cup {x \in {"symbol"} : symbol.t # "absent"}
                 \cup DOMAIN extra |->
           IF k = "action" THEN action
           ELSE IF k = "symbol" THEN symbol
           ELSE extra[k]])

Absent == [t |-> "absent"]

Actions == {Absent, PStr(W_buy), PStr(S_buy_upper), PStr(W_sell), PStr(S_sell_padded),
            PStr(S_alert), PStr(S_hold), PInt(1)}

Symbols == {Absent, PStr(PRODUCT_ID), PStr(W_BTCUSDC), PStr(S_btcusdc_lower),
            PStr(S_ethusd), PInt(7)}

\* the amount fields a caller may send
Extras == {<<>>,
           [usd_amount |-> PInt(100)],
           [usd_amount |-> PFloat(255)],
           [usd_amount |-> PInt(0)],
           [usd_amount |-> PInt(0 - 5)],
           [usd_amount |-> PStr(S_75)],
           [usd_amount |-> PStr(S_abc)],
           [usd_amount |-> PList(<<PInt(1)>>)],
           [usd_amount |-> None_],
           [base_size |-> PStr(S_9)]}

\* every action with every symbol; every amount field on a buy; the amount
\* fields a caller may add to a sell
JsonObjects ==
    {Obj(a, s, <<>>) : a \in Actions, s \in Symbols}
    \cup {Obj(a, PStr(PRODUCT_ID), x) : a \in {PStr(W_buy), PStr(S_buy_upper)}, x \in Extras}
    \cup {Obj(PStr(W_buy), s, [usd_amount |-> PInt(100)]) :
            s \in {PStr(W_BTCUSDC), PStr(S_btcusdc_lower), PStr(S_ethusd)}}
    \cup {Obj(PStr(W_sell), PStr(PRODUCT_ID), [usd_amount |-> PInt(100)]),
          Obj(PStr(W_sell), PStr(S_btcusdc_lower), [base_size |-> PStr(S_9)])}

\* valid JSON that is no object
JsonOthers == {None_, PInt(5), PStr(W_buy), PList(<<>>), PList(<<PStr(W_sell)>>)}

\* bodies json.loads rejects
Texts == {<<"b","u","y">>,
          <<" ","B","U","Y"," ","b","t","c","u","s","d","c","\n">>,
          <<"s","e","l","l"," ","B","T","C","-","U","S","D","C">>,
          <<"S","E","L","L"," ","e","t","h","u","s","d">>,
          <<"b","u","y","i","n","g"," ","n","o","w">>,
          <<"c","l","o","s","e"," ","b","u","y">>,
          <<"h","o","l","d">>,
          <<>>,
          <<"{","b","u","y","}">>}

Bodies == {[kind |-> "json", val |-> v] : v \in JsonObjects \cup JsonOthers}
          \cup {[kind |-> "text", raw |-> t] : t \in Texts}

Statuses == {200, 299, 300, 401}

S_o1 == <<"o","1">>

\* bodies of a reply to POST orders
OrderBodies == {JsonBody(PDict([success |-> PInt(1),
                                success_response |-> PDict([order_id |-> PStr(S_o1)])])),
                JsonBody(PDict([success |-> PInt(0),
                                error_response |-> PDict([error |-> PStr(S_abc)])])),
                JsonBody(PDict([success_response |-> None_])),
                JsonBody(PList(<<>>)),
                RawBody}

OrderReplies == {Timeout} \cup {Reply(st, b) : st \in Statuses, b \in OrderBodies}

\* replies to the follow-up GETs of a buy: only whether one arrives is read
FollowUpReplies == {Timeout, Reply(200, JsonBody(PDict(<<>>))), Reply(401, RawBody)}

S_0_5 == <<"0",".","5">>
S_0 == <<"0">>
S_100 == <<"1","0","0">>
S_4 == <<"4">>
S_6 == <<"6">>
W_USDC == <<"U","S","D","C">>

Acct(cur, val) ==
    PDict([currency |-> PStr(cur), available_balance |-> PDict([value |-> val])])

\* the entries an accounts list is made of
AccountEntries == {Acct(W_BTC, PStr(S_0_5)),
                   Acct(W_BTC, PInt(2)),
                   Acct(W_BTC, PStr(S_0))}

AccountLists == UNION {[1..n -> AccountEntries] : n \in 0..MaxAccounts}

AccountsBody(l) == JsonBody(PDict([accounts |-> PList(l)]))

AccountReplies ==
    {Timeout}
    \cup {Reply(200, AccountsBody(l)) : l \in AccountLists}
    \cup {Reply(st, AccountsBody(<<Acct(W_BTC, PStr(S_0_5))>>)) : st \in {299, 300}}
    \cup {Reply(200, AccountsBody(<<PDict([currency |-> PStr(W_BTC)]),
                                    Acct(W_BTC, PInt(0))>>)),
          Reply(200, AccountsBody(<<Acct(W_BTC, PStr(S_abc)), Acct(W_BTC, PInt(2))>>)),
          Reply(200, AccountsBody(<<Acct(W_USDC, PStr(S_100))>>)),
          Reply(200, AccountsBody(<<Acct(W_USDC, PStr(S_100)), Acct(W_BTC, PStr(S_0_5))>>)),
          Reply(200, JsonBody(PDict([has_next |-> PInt(0)]))),
          Reply(200, JsonBody(PList(<<>>))),
          Reply(200, RawBody),
          Reply(401, RawBody)}

\* replies to the POST of a sell: the handler reads the status alone
SellOrderReplies ==
    {Timeout}
    \cup {Reply(st, b) : st \in Statuses,
                         b \in {JsonBody(PDict([success_response |->
                                                    PDict([order_id |-> PStr(S_o1)])])),
                                RawBody}}

Level(p) == PDict([price |-> PStr(p)])
Book(pid, bids, asks) ==
    PDict([product_id |-> PStr(pid), bids |-> PList(bids), asks |-> PList(asks)])

\* replies to GET best_bid_ask; the sample prices have an exact mid price
PriceReplies ==
    {Timeout}
    \cup {Reply(200, JsonBody(PDict([pricebooks |-> PList(<<Book(PRODUCT_ID, b, a)>>)]))) :
            b \in {<<>>, <<Level(S_4)>>}, a \in {<<>>, <<Level(S_6)>>}}
    \cup {Reply(200, JsonBody(PDict([pricebooks |->
                PList(<<Book(S_ethusd, <<Level(S_4)>>, <<Level(S_6)>>)>>)]))),
          Reply(200, JsonBody(PDict([pricebooks |->
                PList(<<Book(PRODUCT_ID, <<Level(S_abc)>>, <<Level(S_6)>>)>>)]))),
          Reply(401, RawBody),
          Reply(500, JsonBody(PDict([error |-> PStr(S_abc)])))}

\* ------------------------------------------------------------------------
\* Actions
\* ------------------------------------------------------------------------
Init ==
    /\ env \in Envs
    /\ clock = 0
    /\ req = [r \in Slots |-> IdleReq]
    /\ sched = SchedIdle

\* a millisecond passes
Tick ==
    /\ clock < MaxClock
    /\ clock' = clock + 1
    /\ UNCHANGED <<env, req, sched>>

\* the server hands a request to its first free worker
first_free(r) == req[r].pc = "idle" /\ \A o \in Slots : o < r => req[o].pc # "idle"

\* POST /webhook arrives while no other request is being handled
Receive(r, body) ==
    /\ first_free(r)
    /\ \A o \in Slots : req[o].pc = "idle"
    /\ req' = [req EXCEPT ![r] = webhook_receive(req[r], body, env)]
    /\ UNCHANGED <<env, clock, sched>>

PlaceBuy(r, reply) ==
    /\ req[r].pc = "buy"
    /\ req' = [req EXCEPT ![r] = webhook_buy(req[r], env, clock, reply)]
    /\ UNCHANGED <<env, clock, sched>>

BuyDetails(r, reply) ==
    /\ req[r].pc = "buy_details"
    /\ req' = [req EXCEPT ![r] = webhook_buy_details(req[r], env, clock, reply)]
    /\ UNCHANGED <<env, clock, sched>>

BuyFills(r, reply) ==
    /\ req[r].pc = "buy_fills"
    /\ req' = [req EXCEPT ![r] = webhook_buy_fills(req[r], env, clock, reply)]
    /\ UNCHANGED <<env, clock, sched>>

FetchAccounts(r, reply) ==
    /\ req[r].pc = "sell"
    /\ req' = [req EXCEPT ![r] = webhook_accounts(req[r], env, clock, reply)]
    /\ UNCHANGED <<env, clock, sched>>

PlaceSell(r, reply) ==
    /\ req[r].pc = "sell_order"
    /\ req' = [req EXCEPT ![r] = webhook_sell(req[r], env, clock, reply)]
    /\ UNCHANGED <<env, clock, sched>>

SellPrice(r, reply) ==
    /\ req[r].pc = "sell_price"
    /\ req' = [req EXCEPT ![r] = webhook_price(req[r], env, clock, reply)]
    /\ UNCHANGED <<env, clock, sched>>

\* the worker is free again once webhook() has returned or raised
Release(r) ==
    /\ req[r].pc \in {"done", "escaped"}
    /\ req' = [req EXCEPT ![r] = IdleReq]
    /\ UNCHANGED <<env, clock, sched>>

Next ==
    \/ Tick
    \/ \E r \in Slots, body \in Bodies : Receive(r, body)
    \/ \E r \in Slots, reply \in OrderReplies : PlaceBuy(r, reply)
    \/ \E r \in Slots, reply \in FollowUpReplies : BuyDetails(r, reply)
    \/ \E r \in Slots, reply \in FollowUpReplies : BuyFills(r, reply)
    \/ \E r \in Slots, reply \in AccountReplies : FetchAccounts(r, reply)
    \/ \E r \in Slots, reply \in SellOrderReplies : PlaceSell(r, reply)
    \/ \E r \in Slots, reply \in PriceReplies : SellPrice(r, reply)
    \/ \E r \in Slots : Release(r)

Spec == Init /\ [][Next]_vars

\* ------------------------------------------------------------------------
\* The scheduler thread: inputs and actions
\* ------------------------------------------------------------------------
\* hours the thread may be late: how long time.sleep may oversleep, and how
\* long one pass through the loop may take
MaxLate == 1
\* fills in a fetch_fills reply
MaxFills == 2

\* values DAILY_PNL_HOUR_UTC is set to, and hours the process is started at
HourSettings == {0, 13, 24}
StartHours == {0, 13}

S_6000 == <<"6","0","0","0">>
S_6100 == <<"6","1","0","0">>
S_0_1 == <<"0",".","1">>
S_minus_6100 == <<"-","6","1","0","0">>

\* a timestamp datetime.fromisoformat reads, `age` hours before now; of its
\* text only the instant it names is kept
Iso(age) == [t |-> "str", s |-> <<"T">>, age |-> age]

Fill(side, price, size, fee, time) ==
    PDict([side |-> PStr(side), price |-> PStr(price), size |-> PStr(size),
           fee |-> PStr(fee), trade_time |-> time])

FillEntries ==
    {Fill(W_BUY, S_6000, S_0_1, S_0_5, Iso(1)),
     Fill(W_SELL, S_6100, S_0_1, S_0_5, Iso(HoursPerDay)),
     Fill(W_SELL, S_6100, S_0_1, S_0_5, Iso(HoursPerDay + 1)),
     Fill(W_buy, S_6000, S_0_1, S_0_5, PStr(S_abc)),
     Fill(W_BUY, S_6000, S_0, S_0_5, Iso(1))}

FillLists == UNION {[1..n -> FillEntries] : n \in 0..MaxFills}

FillsReplies ==
    {Timeout}
    \cup {Reply(200, JsonBody(PDict([fills |-> PList(l)]))) : l \in FillLists}
    \cup {Reply(200, JsonBody(PDict([orders |->
              PList(<<Fill(W_SELL, S_6100, S_0_1, S_0_5, None_)>>)]))),
          Reply(200, JsonBody(PDict([fills |->
              PList(<<Fill(W_SELL, S_abc, S_0_1, S_0_5, Iso(1))>>)]))),
          Reply(200, JsonBody(PDict([fills |->
              PList(<<Fill(W_SELL, S_minus_6100, S_0_1, S_0_5, Iso(1)),
                      Fill(W_BUY, S_6000, S_0_1, S_0_5, Iso(1))>>)]))),
          Reply(200, JsonBody(PDict([fills |-> PList(<<PStr(S_abc)>>)]))),
          Reply(200, JsonBody(PList(<<>>))),
          Reply(401, JsonBody(PDict([error |-> PStr(S_abc)]))),
          Reply(500, RawBody)}

SummaryReplies ==
    {Timeout,
     Reply(200, JsonBody(PDict([fee_tier |-> PDict([pricing_tier |-> PStr(S_abc)]),
                                total_fees |-> PInt(2)]))),
     Reply(200, JsonBody(PDict([fee_tier |-> PInt(1)]))),
     Reply(401, RawBody)}

InitSched ==
    /\ env \in Envs
    /\ clock = 0
    /\ req = [r \in Slots |-> IdleReq]
    /\ sched \in {start_daily_pnl_thread([SchedIdle EXCEPT !.enabled = en,
                                                          !.hour_utc = h, !.hour = h0]) :
                    en \in BOOLEAN, h \in HourSettings, h0 \in StartHours}

\* an hour of UTC time passes
Hour ==
    /\ IF sched.pc = "sleep" THEN sched.until > 0 - MaxLate
       ELSE sched.pc = "off" \/ sched.busy < MaxLate
    /\ sched' = hour_passed(sched)
    /\ UNCHANGED <<env, clock, req>>

\* the top of the loop, down to the call of time.sleep
Schedule ==
    /\ sched.pc = "loop"
    /\ sched' = scheduled(sched)
    /\ UNCHANGED <<env, clock, req>>

\* time.sleep returns, no sooner than asked
Wake ==
    /\ sched.pc = "sleep"
    /\ sched.until <= 0
    /\ sched' = woken(sched)
    /\ UNCHANGED <<env, clock, req>>

PnlFills(reply) ==
    /\ sched.pc = "fills"
    /\ sched' = pnl_fills(sched, env, clock, reply)
    /\ UNCHANGED <<env, clock, req>>

PnlSummary(reply) ==
    /\ sched.pc = "summary"
    /\ sched' = pnl_summary(sched, env, clock, reply)
    /\ UNCHANGED <<env, clock, req>>

\* time.sleep(60) of the except clause returns
Backoff ==
    /\ sched.pc = "backoff"
    /\ sched' = [sched EXCEPT !.pc = "loop"]
    /\ UNCHANGED <<env, clock, req>>

NextSched ==
    \/ Hour
    \/ Schedule
    \/ Wake
    \/ \E reply \in FillsReplies : PnlFills(reply)
    \/ \E reply \in SummaryReplies : PnlSummary(reply)
    \/ Backoff

\* time passes and the thread is scheduled
SpecSched ==
    /\ InitSched
    /\ [][NextSched]_vars
    /\ WF_vars(Hour)
    /\ WF_vars(Schedule)
    /\ WF_vars(Wake)
    /\ WF_vars(\E reply \in FillsReplies : PnlFills(reply))
    /\ WF_vars(\E reply \in SummaryReplies : PnlSummary(reply))
    /\ WF_vars(Backoff)

\* ------------------------------------------------------------------------
\* Vocabulary of the properties
\* ------------------------------------------------------------------------
\* webhook() has returned or raised
Finished(q) == q.pc \in {"done", "escaped"}

\* the place-order calls a request has issued, as indexes of its call log
OrderCalls(q) ==
    {i \in 1..Len(q.calls) : q.calls[i].method = W_POST /\ q.calls[i].path.base = ORDERS_PATH}

Sizing(call) == call.payload.order_configuration.market_market_ioc

\* a JSON number
IsNumber(v) == v.t \in {"int", "float"}

\* s spells word w, whatever the letter case and the surrounding blanks
Spells(v, w) == v.t = "str" /\ py_upper(py_strip(v.s)) = py_upper(w)

\* a JSON object that asks for `side` on the supported product
AsksFor(body, side) ==
    /\ body.kind = "json"
    /\ body.val.t = "dict"
    /\ Spells(dict_get(body.val, "action"), side)
    /\ \/ Spells(dict_get(body.val, "symbol"), PRODUCT_ID)
       \/ Spells(dict_get(body.val, "symbol"), W_BTCUSDC)

\* a well-formed Buy: a positive numeric usd_amount
WellFormedBuy(body) ==
    /\ AsksFor(body, W_buy)
    /\ IsNumber(dict_get(body.val, "usd_amount"))
    /\ tenths(dict_get(body.val, "usd_amount")) > 0

\* the request issued exactly one order, sized by quote_size with the value
\* of the payload's usd_amount and carrying no base_size
OneQuoteSizedOrder(q) ==
    /\ Cardinality(OrderCalls(q)) = 1
    /\ \A i \in OrderCalls(q) :
         /\ DOMAIN Sizing(q.calls[i]) = {"quote_size"}
         /\ float_of_str(Sizing(q.calls[i]).quote_size) # Raised
         /\ float_of_str(Sizing(q.calls[i]).quote_size).d
              = tenths(dict_get(q.body.val, "usd_amount"))

\* ------------------------------------------------------------------------
\* C1
\* ------------------------------------------------------------------------
\* C1 as stated: with both credentials present, every finished request whose
\* payload is a well-formed Buy with usd_amount > 0 has issued exactly one
\* place-order call, with quote_size equal to usd_amount and no base_size.
C1_AsStated ==
    \A r \in Slots :
        (Finished(req[r]) /\ WellFormedBuy(req[r].body) /\ require_env(env) = <<>>)
            => OneQuoteSizedOrder(req[r])

\* C1 amended: the same, for requests whose token could be signed (the key
\* material is present and jwt.encode accepts it).
C1_OneBuyOrder ==
    \A r \in Slots :
        (Finished(req[r]) /\ WellFormedBuy(req[r].body)
            /\ require_env(env) = <<>> /\ env.private_key = "valid")
            => OneQuoteSizedOrder(req[r])

\* a well-formed Buy of 25.5 has been answered and its order is in the log
C1_Witness ==
    \E r \in Slots :
        /\ Finished(req[r]) /\ WellFormedBuy(req[r].body)
        /\ env.private_key = "valid"
        /\ dict_get(req[r].body.val, "usd_amount") = PFloat(255)
        /\ OrderCalls(req[r]) # {}

\* ------------------------------------------------------------------------
\* C2
\* ------------------------------------------------------------------------
\* the accounts call of a request, as indexes of its call log
AccountsCalls(q) ==
    {i \in 1..Len(q.calls) : q.calls[i].method = W_GET /\ q.calls[i].path.base = ACCOUNTS_PATH}

\* the available balances the fetched accounts report for the base currency
FetchedBalances(q) ==
    IF q.data_accounts.t # "dict" \/ "accounts" \notin DOMAIN q.data_accounts.f THEN {}
    ELSE LET l == q.data_accounts.f.accounts.items
         IN  {tenths(py_float(l[i].f.available_balance.f.value)) :
                 i \in {j \in 1..Len(l) :
                          /\ l[j].f.currency = PStr(W_BTC)
                          /\ "available_balance" \in DOMAIN l[j].f
                          /\ IsNumber(py_float(l[j].f.available_balance.f.value))}}

\* C2: every sell order a request has issued comes after an accounts call of
\* the same request, is sized by base_size alone, and its base_size is the
\* available balance of a base-currency account of that reply (hence no
\* greater than the largest of them), whatever amount the payload carries.
C2_SellSizedByBalance ==
    \A r \in Slots : \A i \in OrderCalls(req[r]) :
        req[r].calls[i].payload.side = W_SELL =>
            /\ \E j \in AccountsCalls(req[r]) : j < i
            /\ DOMAIN Sizing(req[r].calls[i]) = {"base_size"}
            /\ float_of_str(Sizing(req[r].calls[i]).base_size) # Raised
            /\ float_of_str(Sizing(req[r].calls[i]).base_size).d \in FetchedBalances(req[r])
            /\ \E b \in FetchedBalances(req[r]) :
                 float_of_str(Sizing(req[r].calls[i]).base_size).d <= b

\* a sell whose payload names a base_size of 9 has sold the fetched 0.5
C2_Witness ==
    \E r \in Slots :
        /\ req[r].pc # "idle"
        /\ AsksFor(req[r].body, W_sell)
        /\ "base_size" \in DOMAIN req[r].body.val.f
        /\ \E i \in OrderCalls(req[r]) :
             /\ req[r].calls[i].payload.side = W_SELL
             /\ Sizing(req[r].calls[i]).base_size = S_0_5

\* ------------------------------------------------------------------------
\* C3
\* ------------------------------------------------------------------------
\* the body starts with BUY or SELL once trimmed and upper-cased
StartsWithKeyword(raw) ==
    \/ py_startswith(py_upper(py_strip(raw)), W_BUY)
    \/ py_startswith(py_upper(py_strip(raw)), W_SELL)

UnusableBody(body) == body.kind = "text" /\ ~StartsWithKeyword(body.raw)

\* C3: a request whose body is neither JSON nor starts with BUY/SELL signs no
\* token and makes no exchange call, and it ends with the 400 of a bad
\* payload.
C3_BadPayloadNoCall ==
    \A r \in Slots :
        (req[r].pc # "idle" /\ UnusableBody(req[r].body)) =>
            /\ req[r].calls = <<>>
            /\ req[r].tokens = <<>>
            /\ req[r].pc = "done"
            /\ req[r].http.status = 400
            /\ req[r].http.error = "Body is not valid JSON and no BUY/SELL keyword found"

\* the body "close buy" has been refused while the credentials were usable
C3_Witness ==
    \E r \in Slots :
        /\ req[r].pc = "done"
        /\ req[r].body = [kind |-> "text", raw |-> <<"c","l","o","s","e"," ","b","u","y">>]
        /\ env.key_name /\ env.private_key = "valid"
        /\ req[r].http.status = 400

\* ------------------------------------------------------------------------
\* C4
\* ------------------------------------------------------------------------
\* the fetched accounts hold no base-currency entry with a non-zero value
NothingToSell(q) ==
    /\ q.data_accounts.t = "dict"
    /\ "accounts" \in DOMAIN q.data_accounts.f =>
         \A i \in 1..Len(q.data_accounts.f.accounts.items) :
            LET a == q.data_accounts.f.accounts.items[i]
            IN  (a.f.currency = PStr(W_BTC) /\ "available_balance" \in DOMAIN a.f) =>
                  /\ IsNumber(py_float(a.f.available_balance.f.value))
                  /\ tenths(py_float(a.f.available_balance.f.value)) = 0

\* C4: a Sell whose accounts were fetched (status < 300) and hold nothing to
\* sell ends with the 400 "No BTC available to sell" and has issued no order.
C4_NoBalanceRejected ==
    \A r \in Slots :
        (AccountsCalls(req[r]) # {} /\ req[r].status_accounts \in 1..299
            /\ NothingToSell(req[r])) =>
            /\ req[r].pc = "done"
            /\ req[r].http.status = 400
            /\ req[r].http.error = "No BTC available to sell"
            /\ OrderCalls(req[r]) = {}

\* the accounts reply listed one BTC account with the balance "0"
C4_Witness ==
    \E r \in Slots :
        /\ req[r].status_accounts = 200
        /\ req[r].data_accounts = PDict([accounts |-> PList(<<Acct(W_BTC, PStr(S_0))>>)])
        /\ req[r].pc = "done"

\* ------------------------------------------------------------------------
\* C5
\* ------------------------------------------------------------------------
\* the reply to the order names an order identifier
HasOrderId(resp) ==
    /\ resp.t = "dict"
    /\ "success_response" \in DOMAIN resp.f
    /\ resp.f.success_response.t = "dict"
    /\ "order_id" \in DOMAIN resp.f.success_response.f
    /\ truthy(resp.f.success_response.f.order_id)

\* the request told the Notifier of an executed order
SuccessNote(q) ==
    \E i \in 1..Len(q.notes) : q.notes[i].k \in {"buy_executed", "sell_executed"}

\* the request was answered 200 "order placed"
AnsweredPlaced(q) == q.pc = "done" /\ q.http.status = 200 /\ q.http.error = "order placed"

\* C5 as stated: an order is taken as accepted (success notification, 200
\* "order placed") only when the place-order call returned a status below
\* 300 and its reply names an order identifier.
C5_AcceptedNeedsOrderId ==
    \A r \in Slots :
        (SuccessNote(req[r]) \/ AnsweredPlaced(req[r])) =>
            /\ OrderCalls(req[r]) # {}
            /\ req[r].status \in 1..299
            /\ HasOrderId(req[r].resp)

\* ------------------------------------------------------------------------
\* C6
\* ------------------------------------------------------------------------
\* the exchange answered the order of the request with a success status
OrderAccepted(q) == OrderCalls(q) # {} /\ q.status \in 1..299

\* C6 as stated: a request whose order the exchange accepted ends answered
\* 200 "order placed", whatever the follow-up calls do, and only such a
\* request is answered so.
C6_AcceptedAnswered200 ==
    \A r \in Slots :
        /\ (Finished(req[r]) /\ OrderAccepted(req[r])) => AnsweredPlaced(req[r])
        /\ AnsweredPlaced(req[r]) => OrderAccepted(req[r])

\* ------------------------------------------------------------------------
\* C7
\* ------------------------------------------------------------------------
\* C7 as stated: no request ends with an exception leaving webhook(); a
\* request that failed is answered by the handler.
C7_NoEscape ==
    \A r \in Slots : req[r].pc # "escaped"

\* ------------------------------------------------------------------------
\* C8
\* ------------------------------------------------------------------------
\* the request reached an outcome: its order was answered by the exchange,
\* its accounts fetch was refused, or there was nothing to sell
ReachedOutcome(q) ==
    \/ OrderCalls(q) # {} /\ q.status > 0
    \/ q.status_accounts >= 300
    \/ AccountsCalls(q) # {} /\ q.status_accounts \in 1..299 /\ NothingToSell(q)

\* C8: a request that reached an outcome never has told the Notifier twice,
\* and once it has finished it has told the Notifier exactly once.
C8_NotifiedOnce ==
    \A r \in Slots :
        ReachedOutcome(req[r]) =>
            /\ Len(req[r].notes) <= 1
            /\ Finished(req[r]) => Len(req[r].notes) = 1

\* a sell was accepted and the price fetch that follows it timed out
C8_Witness ==
    \E r \in Slots :
        /\ Finished(req[r]) /\ OrderAccepted(req[r])
        /\ req[r].calls[Len(req[r].calls)].path.base = BEST_BID_ASK_PATH
        /\ req[r].notes = <<[k |-> "unhandled"]>>

\* ------------------------------------------------------------------------
\* C9
\* ------------------------------------------------------------------------
\* C9: no request issues more than one place-order call.
C9_NoResubmission ==
    \A r \in Slots : Cardinality(OrderCalls(req[r])) <= 1

\* an order timed out, the request is over and the order was sent once
C9_Witness ==
    \E r \in Slots :
        /\ Finished(req[r])
        /\ Cardinality(OrderCalls(req[r])) = 1
        /\ req[r].status = 0
        /\ req[r].http.status = 500

\* ------------------------------------------------------------------------
\* Concurrent requests
\* ------------------------------------------------------------------------
ConcBodies ==
    {[kind |-> "json", val |-> Obj(PStr(W_buy), PStr(PRODUCT_ID), [usd_amount |-> PInt(100)])],
     [kind |-> "json", val |-> Obj(PStr(W_sell), PStr(PRODUCT_ID), <<>>)],
     [kind |-> "text", raw |-> S_hold]}

ConcOrderReplies ==
    {Timeout,
     Reply(200, JsonBody(PDict([success_response |-> PDict([order_id |-> PStr(S_o1)])]))),
     Reply(401, RawBody)}

ConcAccountReplies ==
    {Reply(200, AccountsBody(<<Acct(W_BTC, PStr(S_0_5))>>)), Reply(200, AccountsBody(<<>>))}

ConcPriceReplies ==
    {Timeout,
     Reply(200, JsonBody(PDict([pricebooks |->
        PList(<<Book(PRODUCT_ID, <<Level(S_4)>>, <<Level(S_6)>>)>>)])))}

\* POST /webhook arrives, whatever the other workers are doing
ReceiveConc(r, body) ==
    /\ first_free(r)
    /\ req' = [req EXCEPT ![r] = webhook_receive(req[r], body, env)]
    /\ UNCHANGED <<env, clock, sched>>

NextConc ==
    \/ Tick
    \/ \E r \in Slots, body \in ConcBodies : ReceiveConc(r, body)
    \/ \E r \in Slots, reply \in ConcOrderReplies : PlaceBuy(r, reply)
    \/ \E r \in Slots, reply \in FollowUpReplies : BuyDetails(r, reply)
    \/ \E r \in Slots, reply \in FollowUpReplies : BuyFills(r, reply)
    \/ \E r \in Slots, reply \in ConcAccountReplies : FetchAccounts(r, reply)
    \/ \E r \in Slots, reply \in ConcOrderReplies : PlaceSell(r, reply)
    \/ \E r \in Slots, reply \in ConcPriceReplies : SellPrice(r, reply)

SpecConc == Init /\ [][NextConc]_vars

\* ------------------------------------------------------------------------
\* C10
\* ------------------------------------------------------------------------
\* C10 as stated: any two distinct place-order calls, also those of two
\* requests handled at the same time, carry different client_order_id
\* values.
C10_UniqueClientOrderId ==
    \A r1, r2 \in Slots :
        \A i \in OrderCalls(req[r1]), j \in OrderCalls(req[r2]) :
            (r1 # r2 \/ i # j) =>
                req[r1].calls[i].payload.client_order_id
                    # req[r2].calls[j].payload.client_order_id

\* ------------------------------------------------------------------------
\* C11
\* ------------------------------------------------------------------------
\* a field the handler can read as text: a string, or absent
TextOrAbsent(v) == v.t \in {"str", "none"}

\* the action is one the system knows: Buy, Sell or Alert
KnownAction(v) == Spells(v, W_buy) \/ Spells(v, W_sell) \/ Spells(v, S_alert)

\* a JSON object with textual fields that names an unknown action or a
\* product that is not the supported one
InvalidInstruction(body) ==
    /\ body.kind = "json"
    /\ body.val.t = "dict"
    /\ TextOrAbsent(dict_get(body.val, "action"))
    /\ TextOrAbsent(dict_get(body.val, "symbol"))
    /\ \/ ~KnownAction(dict_get(body.val, "action"))
       \/ ~(Spells(dict_get(body.val, "symbol"), PRODUCT_ID)
            \/ Spells(dict_get(body.val, "symbol"), W_BTCUSDC))

\* C11 as stated: a request whose payload names an unsupported action or an
\* unsupported symbol is answered with a 4xx status and makes no exchange
\* call, whether the credentials are present or missing.
C11_InvalidAnswered4xx ==
    \A r \in Slots :
        (req[r].pc # "idle" /\ InvalidInstruction(req[r].body)) =>
            /\ req[r].pc = "done"
            /\ req[r].http.status \in 400..499
            /\ req[r].calls = <<>>
            /\ req[r].tokens = <<>>

\* ------------------------------------------------------------------------
\* C12
\* ------------------------------------------------------------------------
\* an exchange call of the request came back with a non-success status
ExchangeRefused(q) ==
    \/ AccountsCalls(q) # {} /\ q.status_accounts >= 300
    \/ OrderCalls(q) # {} /\ q.status >= 300

\* C12 as stated: a request one of whose exchange calls returned a status of
\* 300 or more is answered with a 5xx status, and the Notifier was told.
C12_ExchangeErrorIs5xx ==
    \A r \in Slots :
        (Finished(req[r]) /\ ExchangeRefused(req[r])) =>
            /\ req[r].http.status >= 500
            /\ req[r].notes # <<>>

\* ------------------------------------------------------------------------
\* C13
\* ------------------------------------------------------------------------
\* C13 as stated: with the credentials present, a request whose JSON payload
\* has the action "alert" makes no exchange call and tells the Notifier of
\* the alert.
C13_AlertNotified ==
    \A r \in Slots :
        (Finished(req[r]) /\ require_env(env) = <<>>
            /\ req[r].body.kind = "json" /\ req[r].body.val.t = "dict"
            /\ Spells(dict_get(req[r].body.val, "action"), S_alert)) =>
            /\ req[r].calls = <<>>
            /\ \E i \in 1..Len(req[r].notes) : req[r].notes[i].k = "alert"

\* ------------------------------------------------------------------------
\* C17
\* ------------------------------------------------------------------------
\* the upper-cased text has BTCUSDC among its words
NamesAlias(raw) ==
    \E i \in 1..Len(py_split(py_upper(raw))) : py_split(py_upper(raw))[i] = W_BTCUSDC

\* C17: the symbol the handler validates is a fixed point of the
\* normalization; a JSON symbol spelling BTCUSDC in any letter case, and a
\* plain-text body with the word BTCUSDC in any letter case, both give
\* BTC-USDC.
C17_SymbolNormalized ==
    \A r \in Slots :
        req[r].symbol.t = "str" =>
            /\ normalize_symbol(py_strip(req[r].symbol.s)) = req[r].symbol.s
            /\ (req[r].body.kind = "json"
                  /\ Spells(dict_get(req[r].body.val, "symbol"), W_BTCUSDC))
                 => req[r].symbol.s = PRODUCT_ID
            /\ (req[r].body.kind = "text" /\ NamesAlias(req[r].body.raw))
                 => req[r].symbol.s = PRODUCT_ID

\* the text " BUY btcusdc" and a JSON symbol "btcusdc" have been normalized
C17_Witness ==
    \E r \in Slots :
        /\ req[r].symbol = PStr(PRODUCT_ID)
        /\ \/ req[r].body.kind = "text" /\ NamesAlias(req[r].body.raw)
           \/ req[r].body.kind = "json"
                /\ dict_get(req[r].body.val, "symbol") = PStr(S_btcusdc_lower)

\* ------------------------------------------------------------------------
\* C19
\* ------------------------------------------------------------------------
\* C19 as stated: every buy order a request has issued carries a quote_size
\* that is a number greater than zero.
C19_PositiveQuoteSize ==
    \A r \in Slots : \A i \in OrderCalls(req[r]) :
        "quote_size" \in DOMAIN Sizing(req[r].calls[i]) =>
            /\ float_of_str(Sizing(req[r].calls[i]).quote_size) # Raised
            /\ float_of_str(Sizing(req[r].calls[i]).quote_size).d > 0

\* ------------------------------------------------------------------------
\* C14
\* ------------------------------------------------------------------------
\* the Aggregator has been entered at least once
HasRun == sched.on_trigger >= 1

\* C14: a disabled scheduler never runs the Aggregator.  An enabled one
\* sleeps for 1 to 24 hours, to the first instant after now at which the UTC
\* hour is the configured one (today's when it is still ahead, tomorrow's
\* otherwise); it enters the Aggregator at or after that instant, and never
\* twice for the same instant.
C14_OncePerTrigger ==
    /\ ~sched.enabled =>
         sched.pc = "off" /\ ~HasRun /\ sched.calls = <<>> /\ sched.notes = <<>>
    /\ sched.pc = "sleep" =>
         /\ sched.planned \in 1..HoursPerDay
         /\ (sched.planned_at + sched.planned) % HoursPerDay = sched.hour_utc
         /\ (sched.planned = HoursPerDay) = (sched.planned_at = sched.hour_utc)
    /\ sched.pc \in {"fills", "summary"} =>
         /\ sched.since >= 0
         /\ (sched.hour + HoursPerDay - sched.since) % HoursPerDay = sched.hour_utc
    /\ sched.on_trigger <= 1

\* after a run for today's 13:00 the thread sleeps until tomorrow's
C14_Witness ==
    /\ sched.pc = "sleep"
    /\ HasRun
    /\ sched.hour_utc = 13
    /\ sched.planned = HoursPerDay

\* ------------------------------------------------------------------------
\* C15
\* ------------------------------------------------------------------------
\* the run that just ended told the Notifier of a failure
RunFailed ==
    /\ sched.notes # <<>>
    /\ sched.notes[Len(sched.notes)].k = "pnl_failed"

\* C15: whenever a run of the Aggregator has failed, the thread goes on and
\* the Aggregator is entered again.
C15_RunsAgainAfterFailure == RunFailed ~> (sched.pc = "fills")

\* a run has failed on a timed-out fetch of the fills
C15_Witness ==
    /\ RunFailed
    /\ sched.status = 0
    /\ Len(sched.calls) = 1

\* ------------------------------------------------------------------------
\* C16
\* ------------------------------------------------------------------------
\* the list the reply carries under "fills", or under "orders" without it
ListedFills ==
    IF sched.fills.t # "dict" THEN None_
    ELSE IF "fills" \in DOMAIN sched.fills.f THEN sched.fills.f.fills
    ELSE dict_get(sched.fills, "orders")

\* the fills the exchange returned
ReturnedFills == IF ListedFills.t = "list" THEN ListedFills.items ELSE <<>>

\* the fill is within the trailing 24 hours, or its timestamp does not parse
InWindow(it) == "age" \in DOMAIN it.f.trade_time => it.f.trade_time.age <= 24

\* price * size in hundredths; with `guarded`, 0 unless the price is positive
RefNotional(price, size, guarded) ==
    IF guarded /\ price <= 0 THEN 0 ELSE price * size

\* what a fill adds to a sum, in hundredths; with `guarded`, only fills of a
\* positive size are retained
RefAmount(it, which, guarded) ==
    IF ~InWindow(it) \/ (guarded /\ tenths(py_float(it.f.size)) <= 0) THEN 0
    ELSE IF which = "fees" THEN 10 * tenths(py_float(it.f.fee))
    ELSE IF py_upper(it.f.side.s) = py_upper(which)
    THEN RefNotional(tenths(py_float(it.f.price)), tenths(py_float(it.f.size)), guarded)
    ELSE 0

RECURSIVE RefTotal(_, _, _)
RefTotal(items, which, guarded) ==
    IF items = <<>> THEN 0
    ELSE RefAmount(Head(items), which, guarded) + RefTotal(Tail(items), which, guarded)

\* the report of the run
Report == sched.notes[Len(sched.notes)]

Reported == sched.notes # <<>> /\ Report.k = "daily_pnl"

\* the report states the reference sums and their net
ReportEquals(guarded) ==
    /\ Report.buys = fmt_usd(RefTotal(ReturnedFills, W_buy, guarded))
    /\ Report.sells = fmt_usd(RefTotal(ReturnedFills, W_sell, guarded))
    /\ Report.fees = fmt_usd(RefTotal(ReturnedFills, "fees", guarded))
    /\ Report.net = fmt_usd(RefTotal(ReturnedFills, W_sell, guarded)
                            - RefTotal(ReturnedFills, W_buy, guarded)
                            - RefTotal(ReturnedFills, "fees", guarded))

\* C16 as stated: every report equals the reference computation over the
\* fills retained by their trade time alone.
C16_AsStated == Reported => ReportEquals(FALSE)

\* C16 amended: every report equals the reference computation over the
\* fills of a positive size retained by their trade time, a fill whose price
\* is not positive counting as 0.
C16_ReportMatchesReference == Reported => ReportEquals(TRUE)

\* a buy of 0.1 at 6000, a sell of 0.1 at 6100 and fees of 1 in all give 9
C16_Witness ==
    /\ Reported
    /\ Len(ReturnedFills) = 2
    /\ Report.buys = <<"$","6","0","0",".","0","0">>
    /\ Report.sells = <<"$","6","1","0",".","0","0">>
    /\ Report.fees = <<"$","1",".","0","0">>
    /\ Report.net = <<"$","9",".","0","0">>

\* ------------------------------------------------------------------------
\* C18
\* ------------------------------------------------------------------------
\* C18 as stated: a run whose fetch of the fills came back with a status
\* that is neither 2xx nor 3xx emits no PnL report.
C18_FailedFetchNotReported == Reported => sched.status \in 200..399

\* ------------------------------------------------------------------------
\* Webhook requests while the scheduler runs
\* ------------------------------------------------------------------------
InitConfig ==
    /\ env \in Envs
    /\ clock = 0
    /\ req = [r \in Slots |-> IdleReq]
    /\ sched = start_daily_pnl_thread([SchedIdle EXCEPT !.enabled = TRUE, !.hour = 12])

ConfigFillsReplies ==
    {Timeout,
     Reply(200, JsonBody(PDict([fills |->
         PList(<<Fill(W_BUY, S_6000, S_0_1, S_0_5, Iso(1))>>)])))}

NextConfig ==
    \/ Hour
    \/ Schedule
    \/ Wake
    \/ \E reply \in ConfigFillsReplies : PnlFills(reply)
    \/ \E reply \in FollowUpReplies : PnlSummary(reply)
    \/ \E r \in Slots, body \in ConcBodies : Receive(r, body)
    \/ \E r \in Slots, reply \in ConcOrderReplies : PlaceBuy(r, reply)
    \/ \E r \in Slots, reply \in FollowUpReplies : BuyDetails(r, reply)
    \/ \E r \in Slots, reply \in FollowUpReplies : BuyFills(r, reply)
    \/ \E r \in Slots, reply \in ConcAccountReplies : FetchAccounts(r, reply)
    \/ \E r \in Slots, reply \in ConcOrderReplies : PlaceSell(r, reply)
    \/ \E r \in Slots, reply \in ConcPriceReplies : SellPrice(r, reply)
    \/ \E r \in Slots : Release(r)

SpecConfig == InitConfig /\ [][NextConfig]_vars

\* ------------------------------------------------------------------------
\* C20
\* ------------------------------------------------------------------------
\* the key identifier or the private key is empty
CredentialMissing == ~env.key_name \/ env.private_key = "missing"

\* the names require_env() reports
MissingNames ==
    (IF env.key_name THEN <<>> ELSE <<"COINBASE_API_KEY_NAME">>)
    \o (IF env.private_key = "missing" THEN <<"COINBASE_PRIVATE_KEY">> ELSE <<>>)

\* C20: with a credential empty, a webhook request that got past the body
\* parser is answered 500 with the configuration error, told to the Notifier
\* once, and a run of the Aggregator ends in one error alert; neither signs a
\* token or calls the exchange, and the scheduler thread stays in its loop.
C20_ConfigErrorReported ==
    CredentialMissing =>
        /\ \A r \in Slots :
             (req[r].pc # "idle" /\ ~UnusableBody(req[r].body)) =>
                 /\ req[r].pc = "done"
                 /\ req[r].http.status = 500
                 /\ req[r].http.error = "Missing environment variables"
                 /\ req[r].notes = <<[k |-> "env", missing |-> MissingNames]>>
                 /\ req[r].calls = <<>>
                 /\ req[r].tokens = <<>>
        /\ sched.calls = <<>>
        /\ sched.tokens = <<>>
        /\ sched.pc \in {"loop", "sleep", "fills"}
        /\ (sched.pc = "loop" /\ HasRun) => sched.notes = <<[k |-> "pnl_failed"]>>

\* with the private key empty a request was answered 500, a run has failed
\* and the thread sleeps again
C20_Witness ==
    /\ env.private_key = "missing"
    /\ \E r \in Slots : req[r].pc = "done" /\ req[r].http.status = 500
    /\ sched.pc = "sleep"
    /\ HasRun

\* ------------------------------------------------------------------------
\* C21
\* ------------------------------------------------------------------------
\* the amount a quote_size asks for, written as the notification writes it
QuoteSizeStated(call) ==
    IF float_of_str(Sizing(call).quote_size) = Raised THEN <<>>
    ELSE fmt_usd(10 * float_of_str(Sizing(call).quote_size).d)

\* C21 as stated: the amount of every "Buy executed" notification of a
\* request is the quote_size of the order that request submitted.
C21_NotifiedAmountIsOrdered ==
    \A r \in Slots :
        \A i \in 1..Len(req[r].notes) :
            req[r].notes[i].k = "buy_executed" =>
                /\ Cardinality(OrderCalls(req[r])) = 1
                /\ \A c \in OrderCalls(req[r]) :
                     /\ DOMAIN Sizing(req[r].calls[c]) = {"quote_size"}
                     /\ req[r].notes[i].amount = QuoteSizeStated(req[r].calls[c])

====
